---- MODULE Spec2Model ----
(***************************************************************************)
(* Transition-state (TS) graphs of automol/graph/base/ts.py.               *)
(*                                                                         *)
(* A graph is a record                                                     *)
(*   sym  : atom key -> element symbol ("X" is a dummy atom)               *)
(*   apar : atom key -> stereo parity ("None", "False", "True")            *)
(*   ord  : bond key -> bond order, in hundredths (0.1 is 10, 1 is 100)    *)
(*   bpar : bond key -> stereo parity                                      *)
(* A bond key is a two-element set of atom keys (a frozenset in the code). *)
(* Bond orders are kept in hundredths so that round(o, 1) and round(o)     *)
(* are real conversions.                                                   *)
(***************************************************************************)
EXTENDS Integers, FiniteSets, Sequences, TLC

\* Bounds of the model
NumAtoms == 3
MaxBonds == 2
MaxRxnBonds == 1
MaxTsBonds == 3

AtomKeys == 1..NumAtoms
AllBondKeys == {{a, b} : a, b \in AtomKeys} \ {{a} : a \in AtomKeys}

\* Order 0.1 and 0.9 in hundredths
FRM_ORD == 10
BRK_ORD == 90
\* Conventional bond orders (single, double, triple), in hundredths
ConvOrders == {100, 200, 300}
\* Orders a TS graph may carry when the sentinels have drifted
DriftOrders == {0, 4, 5, 10, 12, 15, 16, 84, 85, 88, 90, 95, 96}

NoPar == "None"
Parities == <<"False", "True">>

(***************************************************************************)
(* Python's round                                                          *)
(***************************************************************************)
\* Hundredths x with x % 10 = 5 that round(x/100, 1) rounds up: the double
\* nearest x/100 lies above it, or the tie goes to the even digit
Round1TieUp == {5, 45, 55, 65, 75, 105, 135, 155, 175, 185, 235, 245, 275,
                285, 295, 335, 345, 375, 385, 395}

\* round(o, 1), in hundredths
Round1(x) ==
    LET r == x % 10
    IN  IF r < 5 THEN x - r
        ELSE IF r > 5 THEN x - r + 10
        ELSE IF x \in Round1TieUp THEN x - r + 10 ELSE x - r

\* round(o): the nearest integer, ties to the even one; in hundredths
Round0(x) ==
    LET q == x \div 100
        r == x % 100
    IN  IF r < 50 THEN q * 100
        ELSE IF r > 50 THEN (q + 1) * 100
        ELSE IF q % 2 = 0 THEN q * 100 ELSE (q + 1) * 100

(***************************************************************************)
(* Graph primitives (automol.graph.base._core, automol.util.dict_)         *)
(***************************************************************************)
atom_keys(gra) == DOMAIN gra.sym

bond_keys(gra) == DOMAIN gra.ord

bond_orders(gra) == gra.ord

atom_stereo_parities(gra) == gra.apar

bond_stereo_parities(gra) == gra.bpar

atom_stereo_keys(gra) == {a \in atom_keys(gra) : gra.apar[a] # NoPar}

bond_stereo_keys(gra) == {k \in bond_keys(gra) : gra.bpar[k] # NoPar}

\* frozenset(map(frozenset, keys)): pairs of atom keys become bond keys
frozen_keys(keys) == {{p[1], p[2]} : p \in keys}

\* add the bonds `keys`; ord_dct gives the order of some of them. A key
\* the graph already has keeps its parity and takes the order of ord_dct
add_bonds(gra, keys, ord_dct) ==
    LET all == bond_keys(gra) \cup keys
    IN  [gra EXCEPT
          !.ord = [k \in all |->
                     IF k \in DOMAIN ord_dct THEN ord_dct[k]
                     ELSE IF k \in bond_keys(gra) THEN gra.ord[k]
                     ELSE 100],
          !.bpar = [k \in all |->
                     IF k \in bond_keys(gra) THEN gra.bpar[k] ELSE NoPar]]

remove_bonds(gra, keys) ==
    LET left == bond_keys(gra) \ keys
    IN  [gra EXCEPT !.ord = [k \in left |-> gra.ord[k]],
                    !.bpar = [k \in left |-> gra.bpar[k]]]

set_bond_orders(gra, ord_dct) ==
    [gra EXCEPT !.ord = [k \in bond_keys(gra) |->
                           IF k \in DOMAIN ord_dct THEN ord_dct[k]
                           ELSE gra.ord[k]]]

without_stereo_parities(gra) ==
    [gra EXCEPT !.apar = [a \in atom_keys(gra) |-> NoPar],
                !.bpar = [k \in bond_keys(gra) |-> NoPar]]

\* remove the atoms of symbol "X", with their bonds
without_dummy_atoms(gra) ==
    LET atms == {a \in atom_keys(gra) : gra.sym[a] # "X"}
        bnds == {k \in bond_keys(gra) : k \subseteq atms}
    IN  [sym |-> [a \in atms |-> gra.sym[a]],
         apar |-> [a \in atms |-> gra.apar[a]],
         ord |-> [k \in bnds |-> gra.ord[k]],
         bpar |-> [k \in bnds |-> gra.bpar[k]]]

\* dict_.transform_values with func=round
transform_values_round(dct) == [k \in DOMAIN dct |-> Round0(dct[k])]

\* dict_.values_by_key: the values at `keys` (a sequence), None for a miss
values_by_key(dct, keys) ==
    [i \in 1..Len(keys) |->
       IF keys[i] \in DOMAIN dct THEN dct[keys[i]] ELSE NoPar]

(***************************************************************************)
(* TS graph model (ts.py)                                                  *)
(***************************************************************************)
\* graph with the two sentinel orders exchanged
graph_swapped_orders(gra, frm_bnd_keys, brk_bnd_keys) ==
    LET frm_ord_dct == [k \in frm_bnd_keys |-> BRK_ORD]
        brk_ord_dct == [k \in brk_bnd_keys |-> FRM_ORD]
        tsg == add_bonds(gra, frm_bnd_keys, frm_ord_dct)
    IN  add_bonds(tsg, brk_bnd_keys, brk_ord_dct)

\* frm_bnd_keys and brk_bnd_keys are bond keys here: frozen_keys is applied
\* by the caller of the model (frozenset(map(frozenset, .)) is idempotent)
graph(gra, frm_bnd_keys, brk_bnd_keys) ==
    LET frm_ord_dct == [k \in frm_bnd_keys |-> FRM_ORD]
        brk_ord_dct == [k \in brk_bnd_keys |-> BRK_ORD]
        tsg == add_bonds(gra, frm_bnd_keys, frm_ord_dct)
    IN  add_bonds(tsg, brk_bnd_keys, brk_ord_dct)

\* forming_bond_keys comparing the order itself, without rounding
forming_bond_keys_exact(tsg) ==
    {k \in bond_keys(tsg) : bond_orders(tsg)[k] = FRM_ORD}

forming_bond_keys(tsg) ==
    {k \in bond_keys(tsg) : Round1(bond_orders(tsg)[k]) = FRM_ORD}

breaking_bond_keys(tsg) ==
    {k \in bond_keys(tsg) : Round1(bond_orders(tsg)[k]) = BRK_ORD}

\* reverse with the two key arguments in the wrong places
reverse_no_swap(tsg, dummies) ==
    LET t == IF dummies THEN tsg ELSE without_dummy_atoms(tsg)
    IN  graph(t, forming_bond_keys(t), breaking_bond_keys(t))

\* reverse stripping the dummy atoms whatever the flag
reverse_always_strips(tsg, dummies) ==
    LET t == without_dummy_atoms(tsg)
    IN  graph(t, breaking_bond_keys(t), forming_bond_keys(t))

reverse(tsg, dummies) ==
    LET t == IF dummies THEN tsg ELSE without_dummy_atoms(tsg)
    IN  graph(t, breaking_bond_keys(t), forming_bond_keys(t))

\* reactants_graph without the removal of the forming bonds
reactants_graph_keep_forming(tsg) ==
    set_bond_orders(tsg, transform_values_round(bond_orders(tsg)))

reactants_graph(tsg) ==
    LET frm_bnd_keys == forming_bond_keys(tsg)
        ord_dct == transform_values_round(bond_orders(tsg))
        gra == set_bond_orders(tsg, ord_dct)
    IN  remove_bonds(gra, frm_bnd_keys)

\* products_graph without the reversal
products_graph_no_reverse(tsg) == reactants_graph(tsg)

products_graph(tsg) == reactants_graph(reverse(tsg, TRUE))

(***************************************************************************)
(* Canonicalization engine and stereo expansion (automol.graph.base._canon *)
(* and _stereo), as far as ts.py uses them.  A site is stereogenic when    *)
(* the substituents seen in the graph are pairwise distinguishable by      *)
(* their symmetry class.                                                   *)
(***************************************************************************)
RECURSIVE sorted_atom_keys(_)
sorted_atom_keys(keys) ==
    IF keys = {} THEN <<>>
    ELSE LET m == CHOOSE x \in keys : \A y \in keys : x <= y
         IN  <<m>> \o sorted_atom_keys(keys \ {m})

key_min(k) == CHOOSE x \in k : \A y \in k : x <= y

key_max(k) == CHOOSE x \in k : \A y \in k : x >= y

key_before(k, l) ==
    \/ key_min(k) < key_min(l)
    \/ key_min(k) = key_min(l) /\ key_max(k) <= key_max(l)

\* sorted() of a set of bond keys: one fixed order of them
RECURSIVE sorted_bond_keys(_)
sorted_bond_keys(keys) ==
    IF keys = {} THEN <<>>
    ELSE LET m == CHOOSE k \in keys : \A l \in keys : key_before(k, l)
         IN  <<m>> \o sorted_bond_keys(keys \ {m})

atom_neighbor_keys(gra, a) ==
    {b \in atom_keys(gra) : {a, b} \in bond_keys(gra)}

RECURSIVE sum_orders(_, _)
sum_orders(gra, keys) ==
    IF keys = {} THEN 0
    ELSE LET k == CHOOSE k \in keys : TRUE
         IN  gra.ord[k] + sum_orders(gra, keys \ {k})

\* symmetry class index of each atom: atoms of different bonding are told
\* apart
class_indices(gra) ==
    [a \in atom_keys(gra) |->
       sum_orders(gra, {k \in bond_keys(gra) : a \in k})]

distinct_classes(keys, idx_dct) ==
    \A m, n \in keys : m # n => idx_dct[m] # idx_dct[n]

stereogenic_atom_keys(gra, assigned, idx_dct) ==
    LET keys == {a \in atom_keys(gra) :
                   /\ Cardinality(atom_neighbor_keys(gra, a)) >= 2
                   /\ distinct_classes(atom_neighbor_keys(gra, a), idx_dct)}
    IN  IF assigned THEN keys ELSE keys \ atom_stereo_keys(gra)

stereogenic_bond_keys(gra, assigned, idx_dct) ==
    LET others(a, k) == atom_neighbor_keys(gra, a) \ k
        keys == {k \in bond_keys(gra) :
                   /\ gra.ord[k] = 200
                   /\ \E a \in k : others(a, k) # {}
                   /\ \A a \in k : distinct_classes(others(a, k), idx_dct)}
    IN  IF assigned THEN keys ELSE keys \ bond_stereo_keys(gra)

flip(par) == IF par = "True" THEN "False" ELSE "True"

\* whether the key order and the class order of the neighbours of atom a
\* differ by an odd permutation
atom_order_odd(gra, a, idx_dct) ==
    LET nkeys == atom_neighbor_keys(gra, a)
        inv == {p \in nkeys \X nkeys :
                  p[1] < p[2] /\ idx_dct[p[1]] > idx_dct[p[2]]}
    IN  Cardinality(inv) % 2 = 1

\* whether, at end a of bond k, the neighbour of highest key is not the
\* neighbour of highest class
bond_end_odd(gra, a, k, idx_dct) ==
    LET nkeys == atom_neighbor_keys(gra, a) \ k
    IN  /\ nkeys # {}
        /\ \E n \in nkeys : idx_dct[n] > idx_dct[key_max(nkeys)]

bond_order_odd(gra, k, idx_dct) ==
    bond_end_odd(gra, key_min(k), k, idx_dct)
        # bond_end_odd(gra, key_max(k), k, idx_dct)

\* canonical parities -> index-based parities, and back
canon_to_local_stereo(gra) ==
    LET idx_dct == class_indices(gra)
    IN  [gra EXCEPT
          !.apar = [a \in atom_keys(gra) |->
                      IF gra.apar[a] # NoPar /\ atom_order_odd(gra, a, idx_dct)
                      THEN flip(gra.apar[a]) ELSE gra.apar[a]],
          !.bpar = [k \in bond_keys(gra) |->
                      IF gra.bpar[k] # NoPar /\ bond_order_odd(gra, k, idx_dct)
                      THEN flip(gra.bpar[k]) ELSE gra.bpar[k]]]

canon_from_local_stereo(gra) ==
    LET idx_dct == class_indices(gra)
    IN  [gra EXCEPT
          !.apar = [a \in atom_keys(gra) |->
                      IF gra.apar[a] # NoPar /\ atom_order_odd(gra, a, idx_dct)
                      THEN flip(gra.apar[a]) ELSE gra.apar[a]],
          !.bpar = [k \in bond_keys(gra) |->
                      IF gra.bpar[k] # NoPar /\ bond_order_odd(gra, k, idx_dct)
                      THEN flip(gra.bpar[k]) ELSE gra.bpar[k]]]

RECURSIVE pow2(_)
pow2(n) == IF n = 0 THEN 1 ELSE 2 * pow2(n - 1)

\* digit j (from 1) of i in base 2
bit(i, j) == (i \div pow2(j - 1)) % 2

\* the indices of lo..hi that are in keep, in increasing order
RECURSIVE select_range(_, _, _)
select_range(lo, hi, keep) ==
    IF lo > hi THEN <<>>
    ELSE IF lo = hi THEN (IF lo \in keep THEN <<lo>> ELSE <<>>)
    ELSE LET mid == (lo + hi) \div 2
         IN  select_range(lo, mid, keep) \o select_range(mid + 1, hi, keep)

\* the indices of 1..n that are in keep, in increasing order
select_indices(n, keep) == select_range(1, n, keep)

\* a double bond whose ends have a common neighbour is in a ring of three
\* atoms
in_three_ring(gra, k) ==
    \E c \in atom_keys(gra) : \A a \in k : {a, c} \in bond_keys(gra)

\* chemically valid parities: a bond in a ring of three atoms cannot have
\* the parity True, its substituents cannot lie across the ring
stereo_valid(gra) ==
    \A k \in bond_keys(gra) :
        gra.bpar[k] = Parities[2] => ~in_three_ring(gra, k)

\* every chemically valid assignment of parities to the stereogenic atoms
\* and bonds of the graph without its parities, in a fixed order
stereo_stereomers(gra) ==
    LET gra0 == without_stereo_parities(gra)
        idx_dct == class_indices(gra0)
        atms == sorted_atom_keys(stereogenic_atom_keys(gra0, FALSE, idx_dct))
        bnds == sorted_bond_keys(stereogenic_bond_keys(gra0, FALSE, idx_dct))
        na == Len(atms)
        n == na + Len(bnds)
        par(i, j) == Parities[bit(i - 1, j) + 1]
        sgr(i) ==
          [gra0 EXCEPT
            !.apar = [a \in atom_keys(gra0) |->
                        IF \E j \in 1..na : atms[j] = a
                        THEN par(i, CHOOSE j \in 1..na : atms[j] = a)
                        ELSE NoPar],
            !.bpar = [k \in bond_keys(gra0) |->
                        IF \E j \in 1..Len(bnds) : bnds[j] = k
                        THEN par(i, na + CHOOSE j \in 1..Len(bnds) : bnds[j] = k)
                        ELSE NoPar]]
        idxs == select_indices(pow2(n), {i \in 1..pow2(n) : stereo_valid(sgr(i))})
    IN  [j \in 1..Len(idxs) |-> sgr(idxs[j])]

(***************************************************************************)
(* Stereo conservation and enumeration (ts.py)                             *)
(***************************************************************************)
\* prds_idx_dct=None
NoIdxDct == <<>>

\* conserved_atom_stereo_keys taking both key sets from the reactants
conserved_atom_stereo_keys_rcts(can_tsg, prds_idx_dct) ==
    LET rcts_gra == reactants_graph(can_tsg)
        keys1 == atom_stereo_keys(rcts_gra)
        keys2 == stereogenic_atom_keys(rcts_gra, TRUE, class_indices(rcts_gra))
    IN  keys1 \cap keys2

conserved_atom_stereo_keys(can_tsg, prds_idx_dct) ==
    LET rcts_gra == reactants_graph(can_tsg)
        prds_gra == products_graph(can_tsg)
        idx_dct == IF prds_idx_dct = NoIdxDct THEN class_indices(prds_gra)
                   ELSE prds_idx_dct
        keys1 == atom_stereo_keys(rcts_gra)
        keys2 == stereogenic_atom_keys(prds_gra, TRUE, idx_dct)
    IN  keys1 \cap keys2

conserved_bond_stereo_keys(can_tsg, prds_idx_dct) ==
    LET rcts_gra == reactants_graph(can_tsg)
        prds_gra == products_graph(can_tsg)
        idx_dct == IF prds_idx_dct = NoIdxDct THEN class_indices(prds_gra)
                   ELSE prds_idx_dct
        keys1 == bond_stereo_keys(rcts_gra)
        keys2 == stereogenic_bond_keys(prds_gra, TRUE, idx_dct)
    IN  keys1 \cap keys2

\* nonconserved_atom_stereo_keys returning <<destroyed, created>>
nonconserved_atom_stereo_keys_swapped(can_tsg, prds_idx_dct) ==
    LET rcts_gra == reactants_graph(can_tsg)
        prds_gra == products_graph(can_tsg)
        idx_dct == IF prds_idx_dct = NoIdxDct THEN class_indices(prds_gra)
                   ELSE prds_idx_dct
        keys1 == atom_stereo_keys(rcts_gra)
        keys2 == stereogenic_atom_keys(prds_gra, TRUE, idx_dct)
    IN  <<keys1 \ keys2, keys2 \ keys1>>

\* <<created, destroyed>>
nonconserved_atom_stereo_keys(can_tsg, prds_idx_dct) ==
    LET rcts_gra == reactants_graph(can_tsg)
        prds_gra == products_graph(can_tsg)
        idx_dct == IF prds_idx_dct = NoIdxDct THEN class_indices(prds_gra)
                   ELSE prds_idx_dct
        keys1 == atom_stereo_keys(rcts_gra)
        keys2 == stereogenic_atom_keys(prds_gra, TRUE, idx_dct)
    IN  <<keys2 \ keys1, keys1 \ keys2>>

nonconserved_bond_stereo_keys(can_tsg, prds_idx_dct) ==
    LET rcts_gra == reactants_graph(can_tsg)
        prds_gra == products_graph(can_tsg)
        idx_dct == IF prds_idx_dct = NoIdxDct THEN class_indices(prds_gra)
                   ELSE prds_idx_dct
        keys1 == bond_stereo_keys(rcts_gra)
        keys2 == stereogenic_bond_keys(prds_gra, TRUE, idx_dct)
    IN  <<keys2 \ keys1, keys1 \ keys2>>

\* to_local_stereo putting back the forming keys only: the breaking bonds
\* keep the order reactants_graph rounded them to
to_local_stereo_no_breaking(can_tsg) ==
    LET rcts_gra == reactants_graph(can_tsg)
        frm_bnd_keys == forming_bond_keys(can_tsg)
    IN  graph(canon_to_local_stereo(rcts_gra), frm_bnd_keys, {})

to_local_stereo(can_tsg) ==
    LET rcts_gra == reactants_graph(can_tsg)
        frm_bnd_keys == forming_bond_keys(can_tsg)
        brk_bnd_keys == breaking_bond_keys(can_tsg)
    IN  graph(canon_to_local_stereo(rcts_gra), frm_bnd_keys, brk_bnd_keys)

\* from_local_stereo putting the forming and breaking keys back in each
\* other's place
from_local_stereo_swapped(loc_tsg) ==
    LET rcts_gra == reactants_graph(loc_tsg)
        frm_bnd_keys == forming_bond_keys(loc_tsg)
        brk_bnd_keys == breaking_bond_keys(loc_tsg)
    IN  graph(canon_from_local_stereo(rcts_gra), brk_bnd_keys, frm_bnd_keys)

from_local_stereo(loc_tsg) ==
    LET rcts_gra == reactants_graph(loc_tsg)
        frm_bnd_keys == forming_bond_keys(loc_tsg)
        brk_bnd_keys == breaking_bond_keys(loc_tsg)
    IN  graph(canon_from_local_stereo(rcts_gra), frm_bnd_keys, brk_bnd_keys)

\* stereomers returning the reactant graphs, the forming and breaking
\* bonds not put back
stereomers_of_reactants(tsg) ==
    stereo_stereomers(without_stereo_parities(reactants_graph(tsg)))

stereomers(tsg) ==
    LET rcts_gra == without_stereo_parities(reactants_graph(tsg))
        frm_bnd_keys == forming_bond_keys(tsg)
        brk_bnd_keys == breaking_bond_keys(tsg)
        rcts_sgrs == stereo_stereomers(rcts_gra)
    IN  [i \in 1..Len(rcts_sgrs) |->
           graph(rcts_sgrs[i], frm_bnd_keys, brk_bnd_keys)]

\* matching_reverse_stereomers rebuilding each product stereoisomer with
\* the forming and breaking keys of the forward graph in their own roles
matching_reverse_stereomers_no_swap(can_tsg, cons_atm_keys, cons_bnd_keys) ==
    LET frm_bnd_keys == forming_bond_keys(can_tsg)
        brk_bnd_keys == breaking_bond_keys(can_tsg)
        loc_tsg == to_local_stereo(can_tsg)
        prds_can_gras ==
            stereo_stereomers(without_stereo_parities(products_graph(can_tsg)))
        matches(i) ==
            /\ values_by_key(
                   atom_stereo_parities(canon_to_local_stereo(prds_can_gras[i])),
                   cons_atm_keys)
                 = values_by_key(atom_stereo_parities(loc_tsg), cons_atm_keys)
            /\ values_by_key(
                   bond_stereo_parities(canon_to_local_stereo(prds_can_gras[i])),
                   cons_bnd_keys)
                 = values_by_key(bond_stereo_parities(loc_tsg), cons_bnd_keys)
        kept == select_indices(Len(prds_can_gras),
                               {i \in 1..Len(prds_can_gras) : matches(i)})
    IN  [j \in 1..Len(kept) |->
           graph(prds_can_gras[kept[j]], frm_bnd_keys, brk_bnd_keys)]

\* steps 1 to 3: the reverse graphs of the product stereoisomers whose
\* local parities at the keys given are those of the forward graph
matching_reverse_stereomers(can_tsg, cons_atm_keys, cons_bnd_keys) ==
    LET frm_bnd_keys == forming_bond_keys(can_tsg)
        brk_bnd_keys == breaking_bond_keys(can_tsg)
        loc_tsg == to_local_stereo(can_tsg)
        cons_loc_atm_pars ==
            values_by_key(atom_stereo_parities(loc_tsg), cons_atm_keys)
        cons_loc_bnd_pars ==
            values_by_key(bond_stereo_parities(loc_tsg), cons_bnd_keys)
        prds_gra == without_stereo_parities(products_graph(can_tsg))
        prds_can_gras == stereo_stereomers(prds_gra)
        prds_loc_gras == [i \in 1..Len(prds_can_gras) |->
                            canon_to_local_stereo(prds_can_gras[i])]
        matches(i) ==
            /\ values_by_key(atom_stereo_parities(prds_loc_gras[i]),
                             cons_atm_keys) = cons_loc_atm_pars
            /\ values_by_key(bond_stereo_parities(prds_loc_gras[i]),
                             cons_bnd_keys) = cons_loc_bnd_pars
        kept == select_indices(Len(prds_can_gras),
                               {i \in 1..Len(prds_can_gras) : matches(i)})
    IN  [j \in 1..Len(kept) |->
           graph(prds_can_gras[kept[j]], brk_bnd_keys, frm_bnd_keys)]

\* compatible_reverse_stereomers matching at every stereogenic key of the
\* products, conserved or not
compatible_reverse_stereomers_all_keys(can_tsg) ==
    LET prds_gra == products_graph(can_tsg)
        prds_idx_dct == class_indices(prds_gra)
    IN  matching_reverse_stereomers(
            can_tsg,
            sorted_atom_keys(stereogenic_atom_keys(prds_gra, TRUE, prds_idx_dct)),
            sorted_bond_keys(stereogenic_bond_keys(prds_gra, TRUE, prds_idx_dct)))

\* compatible_reverse_stereomers returning every reverse graph when no
\* product stereoisomer matches
compatible_reverse_stereomers_fallback(can_tsg) ==
    LET prds_gra == products_graph(can_tsg)
        prds_idx_dct == class_indices(prds_gra)
        rev_can_tsgs == matching_reverse_stereomers(
            can_tsg,
            sorted_atom_keys(conserved_atom_stereo_keys(can_tsg, prds_idx_dct)),
            sorted_bond_keys(conserved_bond_stereo_keys(can_tsg, prds_idx_dct)))
    IN  IF rev_can_tsgs = <<>>
        THEN matching_reverse_stereomers(can_tsg, <<>>, <<>>)
        ELSE rev_can_tsgs

\* compatible_reverse_stereomers comparing the parities of the conserved
\* atoms only
compatible_reverse_stereomers_atoms_only(can_tsg) ==
    LET prds_idx_dct == class_indices(products_graph(can_tsg))
    IN  matching_reverse_stereomers(
            can_tsg,
            sorted_atom_keys(conserved_atom_stereo_keys(can_tsg, prds_idx_dct)),
            <<>>)

compatible_reverse_stereomers(can_tsg) ==
    LET prds_gra == products_graph(can_tsg)
        prds_idx_dct == class_indices(prds_gra)
        cons_atm_keys == sorted_atom_keys(
            conserved_atom_stereo_keys(can_tsg, prds_idx_dct))
        cons_bnd_keys == sorted_bond_keys(
            conserved_bond_stereo_keys(can_tsg, prds_idx_dct))
    IN  matching_reverse_stereomers(can_tsg, cons_atm_keys, cons_bnd_keys)

(***************************************************************************)
(* The state: a caller holds a TS graph and calls the operations on it     *)
(***************************************************************************)
VARIABLES
    tsg,     \* the graph the caller holds
    op,      \* the last operation called
    arg,     \* its arguments
    res,     \* its return value
    stdout,  \* what it printed
    raised   \* the error it raised instead of returning, NoError if none

vars == <<tsg, op, arg, res, stdout, raised>>

\* ts.py has no raise statement and calls nothing that raises on a graph
NoError == "None"

Dummies == {{}, {NumAtoms}}

BaseGraph(dum, ords) ==
    [sym |-> [a \in AtomKeys |-> IF a \in dum THEN "X" ELSE "C"],
     apar |-> [a \in AtomKeys |-> NoPar],
     ord |-> ords,
     bpar |-> [k \in DOMAIN ords |-> NoPar]]

BondKeySets == {ks \in SUBSET AllBondKeys : Cardinality(ks) <= MaxBonds}

\* graphs with conventional bond orders and no stereo parities
BaseGraphs ==
    {BaseGraph(dum, ords) :
       dum \in Dummies,
       ords \in UNION {[ks -> ConvOrders] : ks \in BondKeySets}}

\* graphs whose bond orders may be near 0.1 or 0.9 without being exact
DriftGraphs ==
    {BaseGraph({}, ords) :
       ords \in UNION {[ks -> ConvOrders \cup DriftOrders] : ks \in BondKeySets}}

\* TS graphs: some bonds carry the order 0.1 or 0.9, the others are single
\* or double bonds; no stereo parities yet
TsGraphs ==
    {BaseGraph({}, ords) :
       ords \in UNION {[ks -> {100, 200, FRM_ORD, BRK_ORD}] :
                         ks \in {ks \in SUBSET AllBondKeys :
                                   Cardinality(ks) <= MaxTsBonds}}}

\* the bond keys of a ring through all the atoms
RingBondKeys ==
    {k \in AllBondKeys : \E a \in AtomKeys : k = {a, (a % NumAtoms) + 1}}

\* TS graphs of ring closures and ring openings: their bonds are bonds of
\* the ring
RingTsGraphs == {g \in TsGraphs : bond_keys(g) \subseteq RingBondKeys}

\* bond keys as the caller gives them: pairs (a, b) of atom keys
KeyPairs == {p \in AtomKeys \X AtomKeys : p[1] < p[2]}

KeyPairSets == {ps \in SUBSET KeyPairs : Cardinality(ps) <= MaxRxnBonds}

Init ==
    /\ tsg \in BaseGraphs
    /\ op = "init"
    /\ arg = <<>>
    /\ res = <<>>
    /\ stdout = <<>>
    /\ raised = NoError

InitDrift ==
    /\ tsg \in DriftGraphs
    /\ op = "init"
    /\ arg = <<>>
    /\ res = <<>>
    /\ stdout = <<>>
    /\ raised = NoError

InitStereo ==
    /\ tsg \in TsGraphs
    /\ op = "init"
    /\ arg = <<>>
    /\ res = <<>>
    /\ stdout = <<>>
    /\ raised = NoError

InitReverse ==
    /\ tsg \in RingTsGraphs
    /\ op = "init"
    /\ arg = <<>>
    /\ res = <<>>
    /\ stdout = <<>>
    /\ raised = NoError

\* graph(gra, frm_bnd_keys, brk_bnd_keys) on the base graph held; arg keeps
\* the two key arguments
Build(frm, brk) ==
    /\ op = "init"
    /\ arg' = [frm |-> frm, brk |-> brk]
    /\ res' = graph(tsg, frozen_keys(frm), frozen_keys(brk))
    /\ tsg' = res'
    /\ op' = "graph"
    /\ stdout' = <<>>
    /\ raised' = NoError

\* a call on the graph held that returns `val` and prints `out`
Call(name, val, out) ==
    /\ op \in {"init", "graph", "pick"}
    /\ op' = name
    /\ arg' = <<>>
    /\ res' = val
    /\ stdout' = out
    /\ raised' = NoError
    /\ UNCHANGED tsg

FormingBondKeys == Call("forming_bond_keys", forming_bond_keys(tsg), <<>>)

BreakingBondKeys == Call("breaking_bond_keys", breaking_bond_keys(tsg), <<>>)

Reverse(dummies) ==
    /\ op \in {"init", "graph", "pick"}
    /\ op' = "reverse"
    /\ arg' = [dummies |-> dummies]
    /\ res' = reverse(tsg, dummies)
    /\ stdout' = <<>>
    /\ raised' = NoError
    /\ UNCHANGED tsg

\* reverse, called with the same flag on the graph reverse returned
ReverseAgain ==
    /\ op = "reverse"
    /\ op' = "reverse_reverse"
    /\ res' = reverse(res, arg.dummies)
    /\ stdout' = <<>>
    /\ raised' = NoError
    /\ UNCHANGED <<tsg, arg>>

ReactantsGraph == Call("reactants_graph", reactants_graph(tsg), <<>>)

ProductsGraph == Call("products_graph", products_graph(tsg), <<>>)

\* the symmetry classes of the products, given or left to the call
IdxDctArgs ==
    IF op \in {"init", "graph", "pick"}
    THEN {NoIdxDct, class_indices(products_graph(tsg))}
    ELSE {}

ConservedAtomStereoKeys(idx_dct) ==
    LET keys == conserved_atom_stereo_keys(tsg, idx_dct)
    IN  Call("conserved_atom_stereo_keys", keys, <<keys>>)

ConservedBondStereoKeys(idx_dct) ==
    LET keys == conserved_bond_stereo_keys(tsg, idx_dct)
    IN  Call("conserved_bond_stereo_keys", keys, <<keys>>)

NonconservedAtomStereoKeys(idx_dct) ==
    Call("nonconserved_atom_stereo_keys",
         nonconserved_atom_stereo_keys(tsg, idx_dct), <<>>)

NonconservedBondStereoKeys(idx_dct) ==
    Call("nonconserved_bond_stereo_keys",
         nonconserved_bond_stereo_keys(tsg, idx_dct), <<>>)

ToLocalStereo == Call("to_local_stereo", to_local_stereo(tsg), <<>>)

FromLocalStereo == Call("from_local_stereo", from_local_stereo(tsg), <<>>)

\* from_local_stereo, called on the graph to_local_stereo returned; arg
\* keeps that graph
FromLocalOfToLocal ==
    /\ op = "to_local_stereo"
    /\ op' = "from_local_of_to_local"
    /\ arg' = res
    /\ res' = from_local_stereo(res)
    /\ stdout' = <<>>
    /\ raised' = NoError
    /\ UNCHANGED tsg

\* called on a TS graph without stereo assignments
Stereomers ==
    /\ op = "init"
    /\ Call("stereomers", stereomers(tsg), <<>>)

\* the indices of the stereomers returned
StereomerIndices == IF op = "stereomers" THEN 1..Len(res) ELSE {}

\* the caller goes on with one of the stereomers
PickStereomer(i) ==
    /\ op = "stereomers"
    /\ i \in StereomerIndices
    /\ tsg' = res[i]
    /\ op' = "pick"
    /\ arg' = <<>>
    /\ res' = <<>>
    /\ stdout' = <<>>
    /\ raised' = NoError

\* prints the conserved atom keys, then the conserved bond keys
CompatibleReverseStereomers ==
    LET prds_idx_dct == class_indices(products_graph(tsg))
    IN  Call("compatible_reverse_stereomers",
             compatible_reverse_stereomers(tsg),
             <<conserved_atom_stereo_keys(tsg, prds_idx_dct),
               conserved_bond_stereo_keys(tsg, prds_idx_dct)>>)

\* The TS graph model: build, read back, reverse, decompose
Next ==
    \/ \E frm, brk \in KeyPairSets : Build(frm, brk)
    \/ FormingBondKeys
    \/ BreakingBondKeys
    \/ \E dummies \in BOOLEAN : Reverse(dummies)
    \/ ReverseAgain
    \/ ReactantsGraph
    \/ ProductsGraph

Spec == Init /\ [][Next]_vars

\* The readers of bond orders, on graphs whose orders have drifted
NextDrift ==
    \/ FormingBondKeys
    \/ BreakingBondKeys
    \/ ReactantsGraph

SpecDrift == InitDrift /\ [][NextDrift]_vars

\* Stereo conservation and enumeration, on TS graphs
NextStereo ==
    \/ Stereomers
    \/ \E i \in StereomerIndices : PickStereomer(i)
    \/ \E idx_dct \in IdxDctArgs : ConservedAtomStereoKeys(idx_dct)
    \/ \E idx_dct \in IdxDctArgs : ConservedBondStereoKeys(idx_dct)
    \/ \E idx_dct \in IdxDctArgs : NonconservedAtomStereoKeys(idx_dct)
    \/ \E idx_dct \in IdxDctArgs : NonconservedBondStereoKeys(idx_dct)
    \/ ToLocalStereo
    \/ FromLocalStereo
    \/ FromLocalOfToLocal

SpecStereo == InitStereo /\ [][NextStereo]_vars

\* The reverse graphs compatible with a forward graph that has stereo
\* assignments
NextReverse ==
    \/ Stereomers
    \/ \E i \in StereomerIndices : PickStereomer(i)
    \/ CompatibleReverseStereomers

SpecReverse == InitReverse /\ [][NextReverse]_vars

(***************************************************************************)
(* Properties                                                              *)
(***************************************************************************)
\* the zero-argument forms of the two readers, on the graph held
Frm == forming_bond_keys(tsg)

Brk == breaking_bond_keys(tsg)

\* C1: for forming keys F and breaking keys B disjoint from each other,
\* forming_bond_keys(graph(G, F, B)) is F and breaking_bond_keys(graph(G, F,
\* B)) is B.
C1_BuildReadBack ==
    (op = "graph" /\ frozen_keys(arg.frm) \cap frozen_keys(arg.brk) = {})
        => /\ forming_bond_keys(res) = frozen_keys(arg.frm)
           /\ breaking_bond_keys(res) = frozen_keys(arg.brk)

C1_Witness ==
    /\ op = "graph"
    /\ arg.frm # {} /\ arg.brk # {}
    /\ frozen_keys(arg.frm) \cap frozen_keys(arg.brk) = {}
    /\ forming_bond_keys(res) = frozen_keys(arg.frm)
    /\ \E k \in bond_keys(res) : res.ord[k] \in ConvOrders

\* C2: with dummies=True, reverse(reverse(ts)) is ts.
C2_ReverseInvolution ==
    (op = "reverse_reverse" /\ arg.dummies) => res = tsg

C2_Witness ==
    /\ op = "reverse_reverse" /\ arg.dummies
    /\ Frm # {} /\ Brk # {}
    /\ \E a \in atom_keys(tsg) : tsg.sym[a] = "X"
    /\ res = tsg

\* C3: products_graph(ts) is reactants_graph(reverse(ts)): every forming
\* bond of ts is a single bond of it and no breaking bond of ts is in it
\* (with A-B forming and B-C breaking: A-B single, no B-C).
C3_ProductsGraph ==
    op = "products_graph"
        => /\ res = reactants_graph(reverse(tsg, TRUE))
           /\ \A k \in Frm : k \in bond_keys(res) /\ res.ord[k] = 100
           /\ \A k \in Brk : k \notin bond_keys(res)

C3_Witness ==
    /\ op = "products_graph"
    /\ tsg.ord = ({1, 2} :> FRM_ORD @@ {2, 3} :> BRK_ORD)
    /\ res.ord = ({1, 2} :> 100)

\* C4: forming_bond_keys returns the bonds whose order rounds to 0.1 (an
\* order from 0.05 to 0.15) and breaking_bond_keys those whose order rounds
\* to 0.9 (above 0.85, up to 0.95); a bond of conventional order is in
\* neither, the two sets are disjoint, and with 1-2 at 0.1 and 2-3 at 1 the
\* forming keys are {{1,2}}, the breaking keys are empty and the reactants
\* have the single bond 2-3 only.
C4_SentinelOrders ==
    /\ op = "forming_bond_keys"
         => res = {k \in bond_keys(tsg) : tsg.ord[k] >= 5 /\ tsg.ord[k] <= 15}
    /\ op = "breaking_bond_keys"
         => res = {k \in bond_keys(tsg) : tsg.ord[k] > 85 /\ tsg.ord[k] <= 95}
    /\ op \in {"forming_bond_keys", "breaking_bond_keys"}
         => \A k \in res : tsg.ord[k] \notin ConvOrders \cup {0}
    /\ Frm \cap Brk = {}
    /\ tsg.ord = ({1, 2} :> FRM_ORD @@ {2, 3} :> 100)
         => /\ op = "forming_bond_keys" => res = {{1, 2}}
            /\ op = "breaking_bond_keys" => res = {}
            /\ op = "reactants_graph" => res.ord = ({2, 3} :> 100)

C4_Witness ==
    /\ op = "forming_bond_keys"
    /\ tsg.ord = ({1, 2} :> FRM_ORD @@ {2, 3} :> 100)
    /\ res = {{1, 2}}

\* C5: reverse (dummies=True) exchanges the forming and the breaking bond
\* keys, and a bond that is neither keeps its order.
C5_ReverseSwaps ==
    (op = "reverse" /\ arg.dummies)
        => /\ forming_bond_keys(res) = Brk
           /\ breaking_bond_keys(res) = Frm
           /\ \A k \in bond_keys(tsg) \ (Frm \cup Brk) :
                k \in bond_keys(res) /\ res.ord[k] = tsg.ord[k]

C5_Witness ==
    /\ op = "reverse" /\ arg.dummies
    /\ Frm # {} /\ Brk # {}
    /\ bond_keys(tsg) \ (Frm \cup Brk) # {}
    /\ forming_bond_keys(res) = Brk

\* C6: reactants_graph(ts) has no forming bond of ts, has every breaking
\* bond of ts with order 1, keeps the order of every other bond, and has
\* the atoms of ts.
C6_ReactantsGraph ==
    op = "reactants_graph"
        => /\ bond_keys(res) = bond_keys(tsg) \ Frm
           /\ \A k \in Brk : res.ord[k] = 100
           /\ \A k \in bond_keys(tsg) \ (Frm \cup Brk) : res.ord[k] = tsg.ord[k]
           /\ res.sym = tsg.sym

C6_Witness ==
    /\ op = "reactants_graph"
    /\ Frm # {} /\ Brk # {}
    /\ bond_keys(tsg) \ (Frm \cup Brk) # {}
    /\ bond_keys(res) = bond_keys(tsg) \ Frm

\* the key sets of the two sides of the reaction held
RctsAtomStereoKeys == atom_stereo_keys(reactants_graph(tsg))

RctsBondStereoKeys == bond_stereo_keys(reactants_graph(tsg))

RctsStereogenicAtomKeys ==
    stereogenic_atom_keys(reactants_graph(tsg), TRUE,
                          class_indices(reactants_graph(tsg)))

RctsStereogenicBondKeys ==
    stereogenic_bond_keys(reactants_graph(tsg), TRUE,
                          class_indices(reactants_graph(tsg)))

PrdsStereogenicAtomKeys ==
    stereogenic_atom_keys(products_graph(tsg), TRUE,
                          class_indices(products_graph(tsg)))

PrdsStereogenicBondKeys ==
    stereogenic_bond_keys(products_graph(tsg), TRUE,
                          class_indices(products_graph(tsg)))

\* C7: conserved_atom_stereo_keys(ts) is the atom keys that are stereogenic
\* and have a parity in reactants_graph(ts) and are stereogenic in
\* products_graph(ts), hence a subset of atom_stereo_keys(reactants_graph(
\* ts)) and of the stereogenic atom keys of products_graph(ts); the same of
\* conserved_bond_stereo_keys(ts) and bond keys.
C7_ConservedKeys ==
    /\ op = "conserved_atom_stereo_keys"
         => /\ res = (RctsStereogenicAtomKeys \cap RctsAtomStereoKeys)
                        \cap PrdsStereogenicAtomKeys
            /\ res \subseteq RctsAtomStereoKeys \cap PrdsStereogenicAtomKeys
    /\ op = "conserved_bond_stereo_keys"
         => /\ res = (RctsStereogenicBondKeys \cap RctsBondStereoKeys)
                        \cap PrdsStereogenicBondKeys
            /\ res \subseteq RctsBondStereoKeys \cap PrdsStereogenicBondKeys

C7_Witness ==
    /\ op = "conserved_atom_stereo_keys"
    /\ res # {}
    /\ RctsAtomStereoKeys \ res # {}

\* C8: nonconserved_atom_stereo_keys returns (created, destroyed), created
\* the stereogenic keys of the products without the stereo keys of the
\* reactants and destroyed the converse; created, destroyed and the
\* conserved keys are pairwise disjoint and their union is the union of the
\* keys of the two sides.
C8_NonconservedKeys ==
    op = "nonconserved_atom_stereo_keys"
        => LET cre == res[1]
               des == res[2]
               cons == conserved_atom_stereo_keys(tsg, NoIdxDct)
           IN  /\ cre = PrdsStereogenicAtomKeys \ RctsAtomStereoKeys
               /\ des = RctsAtomStereoKeys \ PrdsStereogenicAtomKeys
               /\ cre \cap des = {}
               /\ cre \cap cons = {}
               /\ des \cap cons = {}
               /\ cre \cup des \cup cons
                    = RctsAtomStereoKeys \cup PrdsStereogenicAtomKeys

C8_Witness ==
    /\ op = "nonconserved_atom_stereo_keys"
    /\ res[1] # {}
    /\ res[2] # {}

\* whether the reactants of the graph held have no stereogenic atom or bond
RctsHaveNoStereocenters ==
    LET gra == without_stereo_parities(reactants_graph(tsg))
    IN  /\ stereogenic_atom_keys(gra, FALSE, class_indices(gra)) = {}
        /\ stereogenic_bond_keys(gra, FALSE, class_indices(gra)) = {}

\* C9: on a TS graph whose reactants have no stereocenter, stereomers(ts)
\* is the one-element tuple (without_stereo_parities(ts),).
C9_StereomersNoStereo ==
    (op = "stereomers" /\ RctsHaveNoStereocenters)
        => res = <<without_stereo_parities(tsg)>>

C9_Witness ==
    /\ op = "stereomers" /\ RctsHaveNoStereocenters
    /\ Frm # {} /\ Brk # {}
    /\ bond_keys(tsg) \ (Frm \cup Brk) # {}
    /\ Len(res) = 1

\* the stereoisomers of the products of the graph held, without parities
PrdsStereomers ==
    stereo_stereomers(without_stereo_parities(products_graph(tsg)))

\* C10: on a TS graph without conserved atom or bond stereocenters,
\* compatible_reverse_stereomers(ts) is one reverse TS graph for each
\* stereoisomer of the products, in the order of their enumeration.
C10_NoConservedNoFiltering ==
    (/\ op = "compatible_reverse_stereomers"
     /\ RctsAtomStereoKeys \cap PrdsStereogenicAtomKeys = {}
     /\ RctsBondStereoKeys \cap PrdsStereogenicBondKeys = {})
        => res = [i \in 1..Len(PrdsStereomers) |->
                    graph(PrdsStereomers[i], Brk, Frm)]

C10_Witness ==
    /\ op = "compatible_reverse_stereomers"
    /\ RctsAtomStereoKeys \cap PrdsStereogenicAtomKeys = {}
    /\ RctsBondStereoKeys \cap PrdsStereogenicBondKeys = {}
    /\ Frm # {} /\ Brk # {}
    /\ Len(res) >= 2

\* C11: converting a TS graph with canonical stereo assignments to local
\* assignments and back returns the graph itself, the two graph-level
\* conversions being inverse to each other
C11_LocalRoundTrip ==
    op = "from_local_of_to_local" => res = tsg

\* the round trip of a graph with reacting bonds whose local assignments
\* differ from its canonical ones
C11_Witness ==
    /\ op = "from_local_of_to_local"
    /\ arg # tsg
    /\ Frm # {} /\ Brk # {}
    /\ res = tsg

\* the four stereo-conservation operations
ConservationOps ==
    {"conserved_atom_stereo_keys", "conserved_bond_stereo_keys",
     "nonconserved_atom_stereo_keys", "nonconserved_bond_stereo_keys"}

\* C12: the four stereo-conservation operations are pure: a call of one of
\* them leaves the graph it was given as it was and writes no output
C12_ConservationOpsPure ==
    [][op' \in ConservationOps => tsg' = tsg /\ stdout' = <<>>]_vars

\* the error kind for forming and breaking key sets that intersect
InvalidTsGraph == "InvalidTsGraph"

\* C13: building a TS graph from forming and breaking bond key sets that
\* intersect raises InvalidTsGraph, and returns no TS graph
C13_OverlapRaises ==
    (/\ op = "graph"
     /\ frozen_keys(arg.frm) \cap frozen_keys(arg.brk) # {})
        => raised = InvalidTsGraph

\* the forward graph with local stereo assignments
FwdLocal == to_local_stereo(tsg)

ConsAtomKeys == RctsAtomStereoKeys \cap PrdsStereogenicAtomKeys

ConsBondKeys == RctsBondStereoKeys \cap PrdsStereogenicBondKeys

\* whether the local parities of a stereoisomer of the products at the keys
\* atms and bnds are those of cons_loc
Matches(prd_can_gra, cons_loc, atms, bnds) ==
    LET prd_loc == canon_to_local_stereo(prd_can_gra)
    IN  /\ \A a \in atms : prd_loc.apar[a] = cons_loc.apar[a]
        /\ \A k \in bnds : prd_loc.bpar[k] = cons_loc.bpar[k]

\* no stereoisomer of the products matches
NoneMatches ==
    LET prds == PrdsStereomers
        cons_loc == FwdLocal
        atms == ConsAtomKeys
        bnds == ConsBondKeys
    IN  \A i \in 1..Len(prds) : ~Matches(prds[i], cons_loc, atms, bnds)

\* the stereoisomers of the reactants without their parities
RctsStereomers ==
    stereo_stereomers(without_stereo_parities(reactants_graph(tsg)))

\* C14: the enumerations return a sequence and raise nothing when they find
\* no output: stereomers returns as many graphs as the reactants have
\* stereoisomers, and compatible_reverse_stereomers returns the empty list
\* when no stereoisomer of the products matches the local parities of the
\* forward graph at the conserved keys
C14_EmptyNotFault ==
    /\ op = "stereomers" =>
          raised = NoError /\ Len(res) = Len(RctsStereomers)
    /\ op = "compatible_reverse_stereomers" =>
          /\ raised = NoError
          /\ NoneMatches => res = <<>>

\* the products have stereoisomers, none of them matches, and the list
\* returned is empty
C14_Witness ==
    /\ op = "compatible_reverse_stereomers"
    /\ Len(PrdsStereomers) > 0
    /\ NoneMatches
    /\ res = <<>>

\* the matching stereoisomers of the products, in the order of enumeration
MatchingPrds ==
    LET prds == PrdsStereomers
        cons_loc == FwdLocal
        atms == ConsAtomKeys
        bnds == ConsBondKeys
        kept == select_indices(
                    Len(prds),
                    {i \in 1..Len(prds) :
                       Matches(prds[i], cons_loc, atms, bnds)})
    IN  [j \in 1..Len(kept) |-> prds[kept[j]]]

\* C15: a stereoisomer of the products gives a reverse graph exactly when
\* its local parities at the conserved atom keys and at the conserved bond
\* keys are those of the forward graph: the others are dropped, and each
\* matching one is kept once, in the order of enumeration
C15_MatchingKeptOnce ==
    op = "compatible_reverse_stereomers" =>
        LET prds == MatchingPrds
        IN  /\ Len(res) = Len(prds)
            /\ \A j \in 1..Len(res) : reactants_graph(res[j]) = prds[j]

\* atoms and bonds are conserved, some stereoisomers of the products are
\* dropped and some are kept
C15_Witness ==
    /\ op = "compatible_reverse_stereomers"
    /\ ConsAtomKeys # {} /\ ConsBondKeys # {}
    /\ Len(res) > 0
    /\ Len(res) < Len(PrdsStereomers)

\* C16: in every graph compatible_reverse_stereomers returns, the forming
\* bond keys are the breaking bond keys of the forward graph and the
\* breaking bond keys are its forming bond keys
C16_ReverseRolesSwapped ==
    op = "compatible_reverse_stereomers" =>
        \A j \in 1..Len(res) :
            /\ forming_bond_keys(res[j]) = Brk
            /\ breaking_bond_keys(res[j]) = Frm

\* reverse graphs of a forward graph with forming and breaking bonds and
\* with stereo assignments
C16_Witness ==
    /\ op = "compatible_reverse_stereomers"
    /\ Frm # {} /\ Brk # {}
    /\ RctsAtomStereoKeys # {} \/ RctsBondStereoKeys # {}
    /\ Len(res) > 0
    /\ forming_bond_keys(res[1]) = Brk
    /\ breaking_bond_keys(res[1]) = Frm

\* g differs from the graph held in stereo parities at most
SameTopology(g) ==
    /\ forming_bond_keys(g) = Frm
    /\ breaking_bond_keys(g) = Brk
    /\ without_stereo_parities(g) = without_stereo_parities(tsg)

\* C17: every graph stereomers returns, and the graphs to_local_stereo and
\* from_local_stereo return, have the forming and the breaking bond keys of
\* the graph given; only stereo parities may differ
C17_TopologyUnchanged ==
    /\ op = "stereomers" => \A i \in 1..Len(res) : SameTopology(res[i])
    /\ op \in {"to_local_stereo", "from_local_stereo"} => SameTopology(res)

\* to_local_stereo changed a parity of a graph with forming and breaking
\* bonds
C17_Witness ==
    /\ op = "to_local_stereo"
    /\ Frm # {} /\ Brk # {}
    /\ res # tsg
    /\ SameTopology(res)

============================================================================
